---------------------------- MODULE Spec2Model ----------------------------
(***************************************************************************)
(* The WeGo turn engine of apps/server/src/game-engine.ts (WeGoEngine) as  *)
(* a state machine.                                                        *)
(*                                                                         *)
(* State: the Prisma tables the engine reads and writes (Turn, Order,      *)
(* Province, Battle, Country), the engine's private fields, the xstate     *)
(* actor's state and pending delayed event, and the position of every      *)
(* async function that is in flight.                                       *)
(*                                                                         *)
(* Granularity: JavaScript runs each function to its next `await` without  *)
(* interruption.  One step of a process is therefore the code between two  *)
(* awaits; the awaited Prisma operation takes effect at the end of the     *)
(* step that issues it, and the continuation is a later step.  A result    *)
(* that the continuation uses (a query's rows) is kept in the process.     *)
(***************************************************************************)
EXTENDS Integers, Sequences, FiniteSets, TLC

\* ------------------------------------------------------------- bounds
NumCountries == 3      \* rows of the Country table
NumProvinces == 2      \* province ids that requests may name
MaxTurn      == 2      \* no Turn row beyond this number is created
MaxOrderId   == 3      \* order.create calls in one run
MaxBattleId  == 1      \* no resolve phase starts after this many battle.create calls
MaxCalls     == 2      \* submitOrder calls in flight at once
MaxScore     == 1      \* hashToScore's range is 0..MaxScore
\* The interleaved specification (Spec) runs on narrower data:
AsyncCountries == 2    \* rows of the Country table
AsyncOrders    == 2    \* order.create calls in one run
MaxInFlight    == 2    \* async functions in flight at once
\* The readiness specification (SpecReady) admits more functions at once:
ReadyInFlight  == 3
\* The restart specification (SpecBoot) starts on up to this many Turn rows:
MaxPersisted   == 2
\* The serial specification (SpecSerial) runs on all of the data above, with
\* markReady called by the countries 1..SerialReady:
SerialReady    == 1

NULL == 0

Countries == 1..NumCountries
Provinces == 1..NumProvinces
Scores    == 0..MaxScore
Slots     == 1..MaxCalls

OrderTypes == {"BUILD_FACTORY", "START_COLONIZATION", "MOVE_ARMY"}

NoDeadline == "null"
\* new Date(Date.now() + config.planningDurationMs)
PlanningDeadline == "now+planningDurationMs"

\* The request bodies that are submitted: a colonization claim on any
\* province, and a MOVE_ARMY order on province 1 with and without a
\* targetProvinceId.
Payloads ==
    [type : {"START_COLONIZATION"}, provinceId : Provinces, targetProvinceId : {NULL}]
    \cup [type : {"MOVE_ARMY"}, provinceId : {1}, targetProvinceId : {NULL, 1}]

\* session ids the sandbox room can see
MaxSessions == 3

\* options.minPlayersToAutoLock, by default
MinPlayersToAutoLock == 2

\* Request bodies that submitOrderSchema does not accept: a type outside the
\* enum, and an empty provinceId (province ids are non-empty strings; NULL
\* stands for the empty one).
InvalidPayloads ==
    [type : {"DECLARE_WAR"}, provinceId : {1}, targetProvinceId : {NULL}]
    \cup [type : {"START_COLONIZATION"}, provinceId : {NULL}, targetProvinceId : {NULL}]

\* ---------------------------------------------------------- variables
VARIABLES
    \* Prisma tables
    countries,          \* Country ids
    turns,              \* Turn rows; a row's id is its index
    orders,             \* Order rows
    provinces,          \* Province rows by id
    battles,            \* Battle rows
    nextOrderId,        \* ids handed out by order.create
    nextBattleId,       \* ids handed out by battle.create
    digest,             \* SHA-256 on the keys hashed so far
    \* WeGoEngine fields
    currentTurnId,
    currentTurnNumber,
    currentPhase,
    phaseEndsAt,
    readyCountries,
    needsNewTurn,
    \* the xstate actor
    machineState,       \* "stopped" before actor.start()
    timer,              \* the delayed event that is scheduled, or "none"
    lastEvent,          \* the event that caused the actor's last transition
    \* functions in flight
    boot,               \* WeGoEngine.init
    hp,                 \* handleEnterPlanning
    hr,                 \* handleEnterResolve
    hc,                 \* handleEnterCommit
    calls,              \* submitOrder, by slot
    mr,                 \* markReady, by country
    \* what the outside sees
    emitted,            \* the last 'game:state' event
    calledReady,        \* countries that called markReady in the open planning phase
    \* the Colyseus sandbox room (server/rooms/WegoRoom.js)
    roomPlayers,        \* room.state.players, by session id
    roomPhase,          \* room.state.phase
    roomTurn,           \* room.state.turn
    contextTurn,        \* the turn in the phase machine's context
    currentOrders,      \* currentOrders in the phase machine's context, by session id
    phaseActor,         \* the phase actor's state value, or "none" before onCreate
    actorStatus,        \* the phase actor's status
    roomTimer,          \* the room's scheduled delayed event, or "none"
    sentOrders          \* sessions that sent commit_orders in the open planning phase

dbVars     == <<countries, turns, orders, provinces, battles, nextOrderId, nextBattleId, digest>>
fieldVars  == <<currentTurnId, currentTurnNumber, currentPhase, phaseEndsAt, readyCountries, needsNewTurn>>
actorVars  == <<machineState, timer, lastEvent>>
procVars   == <<boot, hp, hr, hc, calls, mr>>
outVars    == <<emitted, calledReady>>
engineVars == <<dbVars, fieldVars, actorVars, procVars, outVars>>
roomVars   == <<roomPlayers, roomPhase, roomTurn, contextTurn, currentOrders, phaseActor, actorStatus,
               roomTimer, sentOrders>>
vars       == <<engineVars, roomVars>>


\* ------------------------------------------------------------ helpers
Max(S) == CHOOSE x \in S : \A y \in S : y <= x

Range(seq) == {seq[i] : i \in 1..Len(seq)}

\* Every order in which a query without orderBy may return the rows S.
Orderings(S) ==
    LET n == Cardinality(S)
    IN  {q \in [1..n -> S] : \A i, j \in 1..n : q[i] = q[j] => i = j}

\* ------------------------------------------------------------- tables
NoProvince == [exists |-> FALSE, ownerCountryId |-> NULL, contested |-> FALSE]
NewProvince == [exists |-> TRUE, ownerCountryId |-> NULL, contested |-> FALSE]
NoProvinces == [p \in Provinces |-> NoProvince]

NewTurn(number) ==
    [turnNumber |-> number, phase |-> "planning", phaseEndsAt |-> PlanningDeadline,
     seed |-> number, committed |-> FALSE]

NewOrder(id, turnId, countryId, input) ==
    [id |-> id, turnId |-> turnId, countryId |-> countryId, type |-> input.type,
     provinceId |-> input.provinceId, targetProvinceId |-> input.targetProvinceId,
     status |-> "PLANNED"]

\* prisma.province.upsert({ where: { id }, update: {}, create: { id, name } })
ProvinceUpsert(table, id) ==
    [table EXCEPT ![id] = IF @.exists THEN @ ELSE NewProvince]

\* A deleteMany whose where clause also names targetProvinceId.
OrderDeleteManyMutant(table, turnId, countryId, input) ==
    {o \in table : ~ ( /\ o.turnId = turnId
                       /\ o.countryId = countryId
                       /\ o.type = input.type
                       /\ o.provinceId = input.provinceId
                       /\ o.targetProvinceId = input.targetProvinceId )}

\* What order.deleteMany({ where: { turnId, countryId, type, provinceId } }) leaves.
OrderDeleteMany(table, turnId, countryId, input) ==
    {o \in table : ~ ( /\ o.turnId = turnId
                       /\ o.countryId = countryId
                       /\ o.type = input.type
                       /\ o.provinceId = input.provinceId )}

\* order.findMany / groupBy filter: { turnId, type: "START_COLONIZATION" }
ColonizationOrders(table, turnId) ==
    {o \in table : o.turnId = turnId /\ o.type = "START_COLONIZATION"}

\* A filter that takes every province with an order for contested.
ContestedIdsMutant(table, turnId) ==
    {p \in Provinces :
        Cardinality({o \in ColonizationOrders(table, turnId) : o.provinceId = p}) > 0}

\* groupBy provinceId, _count > 1
ContestedIds(table, turnId) ==
    {p \in Provinces :
        Cardinality({o \in ColonizationOrders(table, turnId) : o.provinceId = p}) > 1}

\* province.updateMany({ data: { contested: false } })
ClearContested(table) ==
    [p \in Provinces |-> IF table[p].exists THEN [table[p] EXCEPT !.contested = FALSE]
                                           ELSE table[p]]

\* province.updateMany({ where: { id: { in: ids } }, data: { contested: true } })
MarkContested(table, ids) ==
    [p \in Provinces |-> IF table[p].exists /\ p \in ids
                         THEN [table[p] EXCEPT !.contested = TRUE]
                         ELSE table[p]]

\* --------------------------------------------------------- the scorer
\* hashToScore(`${seed}:${countryId}:${provinceId}`): the first 32 bits of the
\* SHA-256 digest of the key.  The digest is a fixed function of the key that
\* the model does not compute: its value on a key is chosen when the key is
\* first hashed and is the same on every later use.
ScoreKey(seed, countryId, provinceId) == <<seed, countryId, provinceId>>

hashToScore(d, key) == d[key]

\* The keys the ranking of `list` for province p hashes.
RankKeys(list, seed, p) == {ScoreKey(seed, list[i].countryId, p) : i \in 1..Len(list)}

\* The digest tables that agree with d and are defined on keys.
Hashed(d, keys) ==
    LET new == keys \ DOMAIN d
    IN  {f @@ d : f \in [new -> Scores]}

\* ------------------------------------------------------- the resolver
\* The Map built by the loop over the query result: its keys in insertion order.
RECURSIVE GroupKeys(_)
GroupKeys(list) ==
    IF list = <<>> THEN <<>>
    ELSE LET front == GroupKeys(SubSeq(list, 1, Len(list) - 1))
             p     == list[Len(list)].provinceId
         IN  IF p \in Range(front) THEN front ELSE Append(front, p)

ProvinceOrders(list, p) == SelectSeq(list, LAMBDA o : o.provinceId = p)

\* Array.prototype.sort with (a, b) => b.score - a.score: descending by score,
\* stable, so entries of equal score keep the order they had in the input.
InsertRanked(sorted, e) ==
    LET before == {i \in 1..Len(sorted) : sorted[i].score >= e.score}
        k      == IF before = {} THEN 0 ELSE Max(before)
    IN  SubSeq(sorted, 1, k) \o <<e>> \o SubSeq(sorted, k + 1, Len(sorted))

RECURSIVE SortRanked(_)
SortRanked(entries) ==
    IF entries = <<>> THEN <<>>
    ELSE InsertRanked(SortRanked(SubSeq(entries, 1, Len(entries) - 1)),
                      entries[Len(entries)])

Ranked(d, list, seed, p) ==
    SortRanked([i \in 1..Len(list) |->
        [order |-> list[i],
         score |-> hashToScore(d, ScoreKey(seed, list[i].countryId, p))]])

\* ------------------------------------------------------- the snapshot
\* getPublicState's result: the engine's fields as they are when the province
\* query has returned, with the rows the query read.
PublicState(provs) ==
    [turnNumber |-> currentTurnNumber, phase |-> currentPhase,
     phaseEndsAt |-> phaseEndsAt, readyCountries |-> readyCountries,
     provinces |-> provs]

NoState ==
    [turnNumber |-> 0, phase |-> "none", phaseEndsAt |-> NoDeadline,
     readyCountries |-> {}, provinces |-> NoProvinces]

\* this.io.emit("game:state", state)
Emit(provs) == emitted' = PublicState(provs)

\* ---------------------------------------------------------- processes
IdleHandler ==
    [pc |-> "idle", contestedIds |-> {}, provs |-> NoProvinces, created |-> NULL]

IdleResolve ==
    [pc |-> "idle", countries |-> {}, seed |-> NULL, orders |-> <<>>, keys |-> <<>>,
     i |-> 0, ranked |-> <<>>, provs |-> NoProvinces]

NoInput == [type |-> "none", provinceId |-> NULL, targetProvinceId |-> NULL]

IdleCall ==
    [pc |-> "idle", countryId |-> NULL, input |-> NoInput, contestedIds |-> {},
     provs |-> NoProvinces]

\* `again` tells a call of a country that had called before in the same
\* planning phase.
IdleReady == [pc |-> "idle", provs |-> NoProvinces, total |-> 0, again |-> FALSE]

\* init has returned and the process has not exited.
Running == boot.pc = "done"

\* No async function of the engine is in flight.
Quiet ==
    /\ boot.pc = "done"
    /\ hp.pc = "idle" /\ hr.pc = "idle" /\ hc.pc = "idle"
    /\ \A s \in Slots : calls[s].pc = "idle"
    /\ \A c \in Countries : mr[c].pc = "idle"

\* ----------------------------------------------------------- start-up
\* The state when `new WeGoEngine(io)` has returned, on a database that holds
\* the registered countries `known`, the Turn rows `table` and nothing else.
InitOn(known, table) ==
    /\ countries = known
    /\ turns = table
    /\ orders = {}
    /\ provinces = NoProvinces
    /\ battles = {}
    /\ nextOrderId = 1
    /\ nextBattleId = 1
    /\ digest = <<>>
    /\ currentTurnId = NULL
    /\ currentTurnNumber = 1
    /\ currentPhase = "planning"
    /\ phaseEndsAt = NoDeadline
    /\ readyCountries = {}
    /\ needsNewTurn = FALSE
    /\ machineState = "stopped"
    /\ timer = "none"
    /\ lastEvent = "none"
    /\ boot = [pc |-> "start", latest |-> NULL, provs |-> NoProvinces]
    /\ hp = IdleHandler
    /\ hr = IdleResolve
    /\ hc = IdleHandler
    /\ calls = [s \in Slots |-> IdleCall]
    /\ mr = [c \in Countries |-> IdleReady]
    /\ emitted = NoState
    /\ calledReady = {}

\* The same on a database without Turn rows: the first start of the server.
InitWith(known) == InitOn(known, <<>>)

\* The planning deadline an earlier run of the server wrote, as the starting
\* server finds it: already in the past, or still ahead.
ExpiredDeadline == "then+planningDurationMs<=now"
PendingDeadline == "then+planningDurationMs>now"

\* The phase and phaseEndsAt a persisted Turn row can have: planning rows
\* carry a deadline, and the resolve and commit entries write null.
PersistedPhases ==
    {<<"planning", ExpiredDeadline>>, <<"planning", PendingDeadline>>,
     <<"resolve", NoDeadline>>, <<"commit", NoDeadline>>}

\* A Turn row as an earlier run of the server left it.
PersistedTurn(number, phase) ==
    [turnNumber |-> number, phase |-> phase[1], phaseEndsAt |-> phase[2],
     seed |-> number, committed |-> phase[1] = "commit"]

\* The Turn tables that earlier runs may have left: turns 1..n in creation
\* order, each in any phase.
PersistedTurns ==
    UNION {{[t \in 1..n |-> PersistedTurn(t, phases[t])] :
                phases \in [1..n -> PersistedPhases]} :
           n \in 0..MaxPersisted}


\* ------------------------------------------------------ the Turn table
\* turn.findFirst({ orderBy: { turnNumber: "desc" } }): the row's id, or NULL
LatestTurn(table) ==
    IF table = <<>> THEN NULL
    ELSE CHOOSE id \in 1..Len(table) :
            \A other \in 1..Len(table) : table[other].turnNumber <= table[id].turnNumber

\* An update that also writes a new seed.
TurnUpdateMutant(table, id, phase, deadline) ==
    [table EXCEPT ![id] = [@ EXCEPT !.phase = phase, !.phaseEndsAt = deadline,
                                    !.seed = @ + 1]]

\* turn.update({ where: { id }, data: { phase, phaseEndsAt } })
TurnUpdate(table, id, phase, deadline) ==
    [table EXCEPT ![id] = [@ EXCEPT !.phase = phase, !.phaseEndsAt = deadline]]

\* turn.update({ where: { id }, data: { phase: "commit", committedAt, phaseEndsAt: null } })
TurnCommit(table, id) ==
    [table EXCEPT ![id] = [@ EXCEPT !.phase = "commit", !.phaseEndsAt = NoDeadline,
                                    !.committed = TRUE]]

\* ------------------------------------------------- phase entry actions
\* The xstate actor enters a state: it leaves the old one (cancelling its
\* delayed event), schedules the new state's delayed event and runs the entry
\* action, that is the entry handler up to its first await.

\* A planning entry that keeps the ReadySet.
ClearedMutant(ready) == ready

\* this.readyCountries.clear()
Cleared(ready) == {}

\* planning: handleEnterPlanning up to `await prisma.turn.create` or
\* `await prisma.turn.update`.  tid, number, needs and table are the
\* engine's currentTurnId, currentTurnNumber, needsNewTurn and the Turn table
\* as the caller leaves them.
EnterPlanning(tid, number, needs, table) ==
    /\ hp.pc = "idle"
    /\ machineState' = "planning"
    /\ timer' = "PLANNING_TIMEOUT"
    /\ currentPhase' = "planning"
    /\ readyCountries' = Cleared(readyCountries)
    /\ calledReady' = {}
    /\ IF needs
       THEN /\ turns' = Append(table, NewTurn(number + 1))
            /\ phaseEndsAt' = phaseEndsAt
            /\ hp' = [hp EXCEPT !.pc = "newTurn", !.created = Len(table) + 1]
       ELSE /\ turns' = TurnUpdate(table, tid, "planning", PlanningDeadline)
            /\ phaseEndsAt' = PlanningDeadline
            /\ hp' = [hp EXCEPT !.pc = "query"]

\* resolve: handleEnterResolve up to `await prisma.country.findMany`.
EnterResolve ==
    /\ hr.pc = "idle"
    /\ nextBattleId <= MaxBattleId
    /\ currentTurnNumber < MaxTurn
    /\ machineState' = "resolve"
    /\ timer' = "RESOLVE_TIMEOUT"
    /\ currentPhase' = "resolve"
    /\ phaseEndsAt' = NoDeadline
    /\ hr' = [hr EXCEPT !.pc = "stamp", !.countries = countries]
    /\ calledReady' = {}

\* commit: handleEnterCommit up to `await prisma.turn.update`.
EnterCommit ==
    /\ hc.pc = "idle"
    /\ machineState' = "commit"
    /\ timer' = "COMMIT_TIMEOUT"
    /\ currentPhase' = "commit"
    /\ phaseEndsAt' = NoDeadline
    /\ turns' = TurnCommit(turns, currentTurnId)
    /\ hc' = [hc EXCEPT !.pc = "flag"]

\* ------------------------------------------------------ WeGoEngine.init
\* !(!latest || latest.phase !== "planning")
HasOpenTurn(table, latest) ==
    IF latest = NULL THEN FALSE ELSE table[latest].phase = "planning"

\* init up to ensurePlanningTurn's `await prisma.turn.findFirst`.
InitFindLatest ==
    /\ boot.pc = "start"
    /\ boot' = [boot EXCEPT !.pc = "latest", !.latest = LatestTurn(turns)]
    /\ UNCHANGED <<roomVars, dbVars, fieldVars, actorVars, hp, hr, hc, calls, mr, outVars>>

\* ensurePlanningTurn from findFirst's result: without an open planning turn,
\* up to `await prisma.turn.create`.
InitCreateTurn ==
    /\ boot.pc = "latest"
    /\ ~ HasOpenTurn(turns, boot.latest)
    /\ LET number == IF boot.latest = NULL THEN 1 ELSE turns[boot.latest].turnNumber + 1
       IN  turns' = Append(turns, NewTurn(number))
    /\ boot' = [boot EXCEPT !.pc = "adopt", !.latest = Len(turns) + 1]
    /\ UNCHANGED <<roomVars, countries, orders, provinces, battles, nextOrderId, nextBattleId, digest,
                   fieldVars, actorVars, hp, hr, hc, calls, mr, outVars>>

\* ensurePlanningTurn takes boot.latest as the current turn; then
\* actor.start() enters planning, and emitState runs up to its province query.
InitStart ==
    /\ boot.pc = "adopt" \/ (boot.pc = "latest" /\ HasOpenTurn(turns, boot.latest))
    /\ currentTurnId' = boot.latest
    /\ currentTurnNumber' = turns[boot.latest].turnNumber
    /\ needsNewTurn' = FALSE
    /\ EnterPlanning(boot.latest, turns[boot.latest].turnNumber, FALSE, turns)
    /\ lastEvent' = "xstate.init"
    /\ boot' = [boot EXCEPT !.pc = "emit", !.provs = provinces]
    /\ UNCHANGED <<roomVars, countries, orders, provinces, battles, nextOrderId, nextBattleId, digest,
                   hr, hc, calls, mr, emitted>>

\* init's emitState emits; init returns and the server starts to listen.
InitEmit ==
    /\ boot.pc = "emit"
    /\ Emit(boot.provs)
    /\ boot' = [boot EXCEPT !.pc = "done", !.provs = NoProvinces]
    /\ UNCHANGED <<roomVars, dbVars, fieldVars, actorVars, hp, hr, hc, calls, mr, calledReady>>


\* ------------------------------------------------------- phase timers
\* A planning state whose delayed transition has the target commit.
PlanningTimeoutMutant ==
    /\ machineState = "planning"
    /\ timer = "PLANNING_TIMEOUT"
    /\ EnterCommit
    /\ lastEvent' = "PLANNING_TIMEOUT"
    /\ UNCHANGED <<roomVars, countries, orders, provinces, battles, nextOrderId, nextBattleId, digest,
                   currentTurnId, currentTurnNumber, readyCountries, needsNewTurn,
                   boot, hp, hr, calls, mr, outVars>>

\* after PLANNING_TIMEOUT: planning -> resolve
PlanningTimeout ==
    /\ machineState = "planning"
    /\ timer = "PLANNING_TIMEOUT"
    /\ EnterResolve
    /\ lastEvent' = "PLANNING_TIMEOUT"
    /\ UNCHANGED <<roomVars, dbVars, currentTurnId, currentTurnNumber, readyCountries, needsNewTurn,
                   boot, hp, hc, calls, mr, emitted>>

\* after RESOLVE_TIMEOUT: resolve -> commit
ResolveTimeout ==
    /\ machineState = "resolve"
    /\ timer = "RESOLVE_TIMEOUT"
    /\ EnterCommit
    /\ lastEvent' = "RESOLVE_TIMEOUT"
    /\ UNCHANGED <<roomVars, countries, orders, provinces, battles, nextOrderId, nextBattleId, digest,
                   currentTurnId, currentTurnNumber, readyCountries, needsNewTurn,
                   boot, hp, hr, calls, mr, outVars>>

\* after COMMIT_TIMEOUT: commit -> planning
CommitTimeout ==
    /\ machineState = "commit"
    /\ timer = "COMMIT_TIMEOUT"
    /\ needsNewTurn => currentTurnNumber < MaxTurn
    /\ EnterPlanning(currentTurnId, currentTurnNumber, needsNewTurn, turns)
    /\ lastEvent' = "COMMIT_TIMEOUT"
    /\ UNCHANGED <<roomVars, countries, orders, provinces, battles, nextOrderId, nextBattleId, digest,
                   currentTurnId, currentTurnNumber, needsNewTurn,
                   boot, hr, hc, calls, mr, emitted>>

\* ------------------------------------------- refreshContestedFlags, emitState
\* The steps that handleEnterPlanning and submitOrder share, on the process
\* record `proc`; each gives the record the step leaves.

\* from "refreshGroup": the groupBy query runs
AfterGroupBy(proc) ==
    [proc EXCEPT !.pc = "refreshMark", !.contestedIds = ContestedIds(orders, currentTurnId)]

\* from "refreshMark": with contested ids the second updateMany runs; without
\* any, refreshContestedFlags returns and emitState's province query runs
AfterMark(proc) ==
    IF proc.contestedIds # {}
    THEN [proc EXCEPT !.pc = "query", !.contestedIds = {}]
    ELSE [proc EXCEPT !.pc = "emit", !.provs = provinces]

ProvincesAfterMark(proc) == MarkContested(provinces, proc.contestedIds)

\* from "query": getPublicState's province.findMany runs
AfterQuery(proc) == [proc EXCEPT !.pc = "emit", !.provs = provinces]

\* ------------------------------------------------- handleEnterPlanning
\* after turn.create: the new turn becomes current; refreshContestedFlags
\* runs up to its first updateMany
HpNewTurn ==
    /\ hp.pc = "newTurn"
    /\ currentTurnId' = hp.created
    /\ currentTurnNumber' = turns[hp.created].turnNumber
    /\ phaseEndsAt' = turns[hp.created].phaseEndsAt
    /\ needsNewTurn' = FALSE
    /\ provinces' = ClearContested(provinces)
    /\ hp' = [hp EXCEPT !.pc = "refreshGroup", !.created = NULL]
    /\ UNCHANGED <<roomVars, countries, turns, orders, battles, nextOrderId, nextBattleId, digest,
                   currentPhase, readyCountries, actorVars, boot, hr, hc, calls, mr, outVars>>

HpRefreshGroup ==
    /\ hp.pc = "refreshGroup"
    /\ hp' = AfterGroupBy(hp)
    /\ UNCHANGED <<roomVars, dbVars, fieldVars, actorVars, boot, hr, hc, calls, mr, outVars>>

HpRefreshMark ==
    /\ hp.pc = "refreshMark"
    /\ provinces' = ProvincesAfterMark(hp)
    /\ hp' = AfterMark(hp)
    /\ UNCHANGED <<roomVars, countries, turns, orders, battles, nextOrderId, nextBattleId, digest,
                   fieldVars, actorVars, boot, hr, hc, calls, mr, outVars>>

HpQuery ==
    /\ hp.pc = "query"
    /\ hp' = AfterQuery(hp)
    /\ UNCHANGED <<roomVars, dbVars, fieldVars, actorVars, boot, hr, hc, calls, mr, outVars>>

HpEmit ==
    /\ hp.pc = "emit"
    /\ Emit(hp.provs)
    /\ hp' = IdleHandler
    /\ UNCHANGED <<roomVars, dbVars, fieldVars, actorVars, boot, hr, hc, calls, mr, calledReady>>

\* --------------------------------------------------- handleEnterCommit
\* after turn.update: needsNewTurn is set; emitState's province query runs
HcFlag ==
    /\ hc.pc = "flag"
    /\ needsNewTurn' = TRUE
    /\ hc' = AfterQuery(hc)
    /\ UNCHANGED <<roomVars, dbVars, currentTurnId, currentTurnNumber, currentPhase, phaseEndsAt,
                   readyCountries, actorVars, boot, hp, hr, calls, mr, outVars>>

HcEmit ==
    /\ hc.pc = "emit"
    /\ Emit(hc.provs)
    /\ hc' = IdleHandler
    /\ UNCHANGED <<roomVars, dbVars, fieldVars, actorVars, boot, hp, hr, calls, mr, calledReady>>


\* -------------------------------------------------- handleEnterResolve
\* after country.findMany: every country read is stamped ready; the turn's
\* phase update runs
HrStamp ==
    /\ hr.pc = "stamp"
    /\ readyCountries' = readyCountries \cup hr.countries
    /\ turns' = TurnUpdate(turns, currentTurnId, "resolve", NoDeadline)
    /\ hr' = [hr EXCEPT !.pc = "readTurn", !.countries = {}]
    /\ UNCHANGED <<roomVars, countries, orders, provinces, battles, nextOrderId, nextBattleId, digest,
                   currentTurnId, currentTurnNumber, currentPhase, phaseEndsAt, needsNewTurn,
                   actorVars, boot, hp, hc, calls, mr, outVars>>

\* turn.findUniqueOrThrow runs
HrReadTurn ==
    /\ hr.pc = "readTurn"
    /\ hr' = [hr EXCEPT !.pc = "readOrders", !.seed = turns[currentTurnId].seed]
    /\ UNCHANGED <<roomVars, dbVars, fieldVars, actorVars, boot, hp, hc, calls, mr, outVars>>

\* order.findMany runs; it has no orderBy
HrReadOrders ==
    /\ hr.pc = "readOrders"
    /\ \E q \in Orderings(ColonizationOrders(orders, currentTurnId)) :
          hr' = [hr EXCEPT !.pc = "loop", !.orders = q, !.keys = GroupKeys(q), !.i = 0]
    /\ UNCHANGED <<roomVars, dbVars, fieldVars, actorVars, boot, hp, hc, calls, mr, outVars>>

\* The ranking of province p's orders and the update that makes ranked[0]'s
\* country the owner.
RankAndOwn(p) ==
    LET list == ProvinceOrders(hr.orders, p)
    IN  \E d \in Hashed(digest, RankKeys(list, hr.seed, p)) :
          LET ranked == Ranked(d, list, hr.seed, p)
          IN  /\ digest' = d
              /\ provinces' = [provinces EXCEPT ![p] =
                                 [@ EXCEPT !.ownerCountryId = ranked[1].order.countryId,
                                           !.contested = FALSE]]
              /\ hr' = [hr EXCEPT !.pc = "applied", !.ranked = ranked,
                                  !.i = IF hr.pc = "loop" THEN hr.i + 1 ELSE hr.i]

\* The next iteration of the loop over ordersByProvince, up to its first
\* await; after the last one, emitState's province query runs.
HrLoop ==
    /\ hr.pc = "loop"
    /\ IF hr.i + 1 > Len(hr.keys)
       THEN /\ hr' = [hr EXCEPT !.pc = "emit", !.provs = provinces, !.orders = <<>>,
                                !.keys = <<>>, !.i = 0, !.seed = NULL, !.ranked = <<>>]
            /\ UNCHANGED <<provinces, digest>>
       ELSE LET p == hr.keys[hr.i + 1]
            IN  IF Len(ProvinceOrders(hr.orders, p)) > 1
                THEN /\ provinces' = [provinces EXCEPT ![p] = [@ EXCEPT !.contested = TRUE]]
                     /\ hr' = [hr EXCEPT !.pc = "owner", !.i = hr.i + 1]
                     /\ UNCHANGED digest
                ELSE RankAndOwn(p)
    /\ UNCHANGED <<roomVars, countries, turns, orders, battles, nextOrderId, nextBattleId,
                   fieldVars, actorVars, boot, hp, hc, calls, mr, outVars>>

\* after the contested update of a province with several orders
HrOwner ==
    /\ hr.pc = "owner"
    /\ RankAndOwn(hr.keys[hr.i])
    /\ UNCHANGED <<roomVars, countries, turns, orders, battles, nextOrderId, nextBattleId,
                   fieldVars, actorVars, boot, hp, hc, calls, mr, outVars>>

\* The promise of `void this.handleEnterResolve()` rejects and nothing handles
\* it.  Node's default since version 15 raises it as an uncaught exception and
\* the process exits: the actor, its timer and every function in flight are
\* gone.  An older Node, or one started with --unhandled-rejections=warn,
\* prints a warning and goes on: only the handler is over.
UnhandledRejection ==
    \/ /\ machineState' = "stopped"
       /\ timer' = "none"
       /\ boot' = [boot EXCEPT !.pc = "exited"]
       /\ hp' = IdleHandler
       /\ hr' = IdleResolve
       /\ hc' = IdleHandler
       /\ calls' = [s \in Slots |-> IdleCall]
       /\ mr' = [c \in Countries |-> IdleReady]
    \/ /\ hr' = IdleResolve
       /\ UNCHANGED <<machineState, timer, boot, hp, hc, calls, mr>>

\* order.update({ where: { id: winner.order.id }, data: { status: "APPLIED" } });
\* update rejects when the row is gone, and nothing catches it
HrApplied ==
    /\ hr.pc = "applied"
    /\ LET id == hr.ranked[1].order.id
       IN  IF \E o \in orders : o.id = id
           THEN /\ orders' = {IF o.id = id THEN [o EXCEPT !.status = "APPLIED"] ELSE o :
                                o \in orders}
                /\ hr' = [hr EXCEPT !.pc = IF Len(hr.ranked) > 1 THEN "battle" ELSE "loop"]
                /\ UNCHANGED <<machineState, timer, boot, hp, hc, calls, mr>>
           ELSE /\ orders' = orders
                /\ UnhandledRejection
    /\ UNCHANGED <<roomVars, countries, turns, provinces, battles, nextOrderId, nextBattleId, digest,
                   fieldVars, lastEvent, outVars>>

\* battle.create for a province with several orders
NewBattle(id, turnId, p, ranked) ==
    [id |-> id, turnId |-> turnId, provinceId |-> p,
     attackerId |-> ranked[1].order.countryId,
     defenderId |-> ranked[2].order.countryId,
     winnerCountryId |-> ranked[1].order.countryId]

HrBattle ==
    /\ hr.pc = "battle"
    /\ battles' = battles \cup {NewBattle(nextBattleId, currentTurnId, hr.keys[hr.i], hr.ranked)}
    /\ nextBattleId' = nextBattleId + 1
    /\ hr' = [hr EXCEPT !.pc = "losers"]
    /\ UNCHANGED <<roomVars, countries, turns, orders, provinces, nextOrderId, digest,
                   fieldVars, actorVars, boot, hp, hc, calls, mr, outVars>>

\* ranked.slice(1)
Losers(ranked) == {ranked[k].order.id : k \in 2..Len(ranked)}

\* order.updateMany({ where: { id: { in: losers } }, data: { status: "REJECTED" } })
HrLosers ==
    /\ hr.pc = "losers"
    /\ orders' = {IF o.id \in Losers(hr.ranked) THEN [o EXCEPT !.status = "REJECTED"] ELSE o :
                    o \in orders}
    /\ hr' = [hr EXCEPT !.pc = "loop"]
    /\ UNCHANGED <<roomVars, countries, turns, provinces, battles, nextOrderId, nextBattleId, digest,
                   fieldVars, actorVars, boot, hp, hc, calls, mr, outVars>>

HrEmit ==
    /\ hr.pc = "emit"
    /\ Emit(hr.provs)
    /\ hr' = IdleResolve
    /\ UNCHANGED <<roomVars, dbVars, fieldVars, actorVars, boot, hp, hc, calls, mr, calledReady>>


\* ---------------------------------------------------------- submitOrder
\* A guard that lets orders in during resolve.
PhaseAllowsOrdersMutant(phase) == phase # "commit"

\* if (this.currentPhase !== "planning") throw
PhaseAllowsOrders(phase) == phase = "planning"

\* A schema without the .min(1) of provinceId.
SchemaAcceptsMutant(input) == input.type \in OrderTypes

\* submitOrderSchema.parse(payload) returns: type is in the enum and
\* provinceId has at least one character
SchemaAccepts(input) == input.type \in OrderTypes /\ input.provinceId # NULL

\* The calls that have not yet run their order.create.
Creating == {s \in Slots : calls[s].pc \in {"delete", "create"}}

\* A call arrives: it throws at the phase check or in submitOrderSchema.parse
\* and is over, or runs up to ensureProvince's `await prisma.province.upsert`.
SubmitOrder(s, countryId, input) ==
    /\ boot.pc = "done"
    /\ countryId \in countries
    /\ calls[s].pc = "idle"
    /\ \A t \in Slots : t < s => calls[t].pc # "idle"
    /\ IF ~ PhaseAllowsOrders(currentPhase)
       THEN /\ calls' = [calls EXCEPT ![s].pc = "threw"]
            /\ UNCHANGED provinces
       ELSE IF ~ SchemaAccepts(input)
       THEN /\ calls' = [calls EXCEPT ![s] = [IdleCall EXCEPT !.pc = "threw", !.input = input]]
            /\ UNCHANGED provinces
       ELSE /\ nextOrderId + Cardinality(Creating) <= MaxOrderId
            /\ provinces' = ProvinceUpsert(provinces, input.provinceId)
            /\ calls' = [calls EXCEPT ![s] = [IdleCall EXCEPT !.pc = "delete",
                                                !.countryId = countryId, !.input = input]]
    /\ UNCHANGED <<roomVars, countries, turns, orders, battles, nextOrderId, nextBattleId, digest,
                   fieldVars, actorVars, boot, hp, hr, hc, mr, emitted, calledReady>>

\* The rejected promise of a call that threw settles: the route answers 409
\* and the call is over.
Thrown == \E s \in Slots : calls[s].pc = "threw"

SubmitThrow(s) ==
    /\ calls[s].pc = "threw"
    /\ calls' = [calls EXCEPT ![s] = IdleCall]
    /\ UNCHANGED <<roomVars, dbVars, fieldVars, actorVars, boot, hp, hr, hc, mr, outVars>>

\* order.deleteMany runs
SubmitDelete(s) ==
    /\ calls[s].pc = "delete"
    /\ orders' = OrderDeleteMany(orders, currentTurnId, calls[s].countryId, calls[s].input)
    /\ calls' = [calls EXCEPT ![s].pc = "create"]
    /\ UNCHANGED <<roomVars, countries, turns, provinces, battles, nextOrderId, nextBattleId, digest,
                   fieldVars, actorVars, boot, hp, hr, hc, mr, outVars>>

\* order.create runs
SubmitCreate(s) ==
    /\ calls[s].pc = "create"
    /\ orders' = orders \cup
                   {NewOrder(nextOrderId, currentTurnId, calls[s].countryId, calls[s].input)}
    /\ nextOrderId' = nextOrderId + 1
    /\ calls' = [calls EXCEPT ![s].pc = "refreshClear"]
    /\ UNCHANGED <<roomVars, countries, turns, provinces, battles, nextBattleId, digest,
                   fieldVars, actorVars, boot, hp, hr, hc, mr, outVars>>

\* refreshContestedFlags: the first updateMany runs
SubmitRefreshClear(s) ==
    /\ calls[s].pc = "refreshClear"
    /\ provinces' = ClearContested(provinces)
    /\ calls' = [calls EXCEPT ![s].pc = "refreshGroup"]
    /\ UNCHANGED <<roomVars, countries, turns, orders, battles, nextOrderId, nextBattleId, digest,
                   fieldVars, actorVars, boot, hp, hr, hc, mr, outVars>>

SubmitRefreshGroup(s) ==
    /\ calls[s].pc = "refreshGroup"
    /\ calls' = [calls EXCEPT ![s] = AfterGroupBy(calls[s])]
    /\ UNCHANGED <<roomVars, dbVars, fieldVars, actorVars, boot, hp, hr, hc, mr, outVars>>

SubmitRefreshMark(s) ==
    /\ calls[s].pc = "refreshMark"
    /\ provinces' = ProvincesAfterMark(calls[s])
    /\ calls' = [calls EXCEPT ![s] = AfterMark(calls[s])]
    /\ UNCHANGED <<roomVars, countries, turns, orders, battles, nextOrderId, nextBattleId, digest,
                   fieldVars, actorVars, boot, hp, hr, hc, mr, outVars>>

SubmitQuery(s) ==
    /\ calls[s].pc = "query"
    /\ calls' = [calls EXCEPT ![s] = AfterQuery(calls[s])]
    /\ UNCHANGED <<roomVars, dbVars, fieldVars, actorVars, boot, hp, hr, hc, mr, outVars>>

\* emitState emits and submitOrder returns
SubmitEmit(s) ==
    /\ calls[s].pc = "emit"
    /\ Emit(calls[s].provs)
    /\ calls' = [calls EXCEPT ![s] = IdleCall]
    /\ UNCHANGED <<roomVars, dbVars, fieldVars, actorVars, boot, hp, hr, hc, mr, calledReady>>

\* ------------------------------------------------------------ markReady
\* if (totalCountries > 0 && this.readyCountries.size >= totalCountries)
\* A test that asks for more ready countries than there are.
AllReadyMutant(total, ready) == total > 0 /\ Cardinality(ready) > total

AllReady(total, ready) == total > 0 /\ Cardinality(ready) >= total

\* A guard that lets readiness in during commit.
PhaseAllowsReadyMutant(phase) == phase # "resolve"

\* if (this.currentPhase !== "planning") return
PhaseAllowsReady(phase) == phase = "planning"

\* engine.markReady(c) is called: outside planning it returns at once; in
\* planning the id is added and emitState runs up to its province query.
EngineMarkReady(c) ==
    /\ boot.pc = "done"
    /\ mr[c].pc = "idle"
    /\ IF ~ PhaseAllowsReady(currentPhase)
       THEN /\ mr' = [mr EXCEPT ![c].pc = "returned"]
            /\ UNCHANGED <<readyCountries, calledReady>>
       ELSE /\ readyCountries' = readyCountries \cup {c}
            /\ calledReady' = calledReady \cup {c}
            /\ mr' = [mr EXCEPT ![c] = [IdleReady EXCEPT !.pc = "emit", !.provs = provinces,
                                                         !.again = c \in calledReady]]
    /\ UNCHANGED <<roomVars, dbVars, currentTurnId, currentTurnNumber, currentPhase, phaseEndsAt,
                   needsNewTurn, actorVars, boot, hp, hr, hc, calls, emitted>>

\* POST /api/game/ready: the route takes the country id from the request's
\* session, a row that exists only for a registered country, and calls
\* markReady with it.
MarkReady(c) ==
    /\ c \in countries
    /\ EngineMarkReady(c)

\* The promise of a call that returned at its phase check settles: the route
\* answers and the call is over.
MarkReadyReturn(c) ==
    /\ mr[c].pc = "returned"
    /\ mr' = [mr EXCEPT ![c] = IdleReady]
    /\ UNCHANGED <<roomVars, dbVars, fieldVars, actorVars, boot, hp, hr, hc, calls, outVars>>

\* emitState emits; country.count runs
MarkReadyEmit(c) ==
    /\ mr[c].pc = "emit"
    /\ Emit(mr[c].provs)
    /\ mr' = [mr EXCEPT ![c] = [IdleReady EXCEPT !.pc = "check", !.again = mr[c].again,
                                                  !.total = Cardinality(countries)]]
    /\ UNCHANGED <<roomVars, dbVars, fieldVars, actorVars, boot, hp, hr, hc, calls, calledReady>>

\* An actor that takes ALL_READY in commit as well.
HandlesAllReadyMutant(state) == state \in {"planning", "commit"}

\* planning: { on: { ALL_READY: { target: "resolve" } } }, and no other state
\* has a transition on ALL_READY
HandlesAllReady(state) == state = "planning"

\* the size check; actor.send({ type: "ALL_READY" }) moves the actor from
\* planning to resolve and is dropped in every other state
MarkReadyCheck(c) ==
    /\ mr[c].pc = "check"
    /\ mr' = [mr EXCEPT ![c] = IdleReady]
    /\ IF AllReady(mr[c].total, readyCountries) /\ HandlesAllReady(machineState)
       THEN EnterResolve /\ lastEvent' = "ALL_READY"
       ELSE UNCHANGED <<actorVars, currentPhase, phaseEndsAt, hr, calledReady>>
    /\ UNCHANGED <<roomVars, dbVars, currentTurnId, currentTurnNumber, readyCountries, needsNewTurn,
                   boot, hp, hc, calls, emitted>>

\* ------------------------------------------- the sandbox room (WegoRoom.js)
\* The room drives its own phase machine.  The machine is built with xstate's
\* createActor and `guard:`, the API of xstate 5, where an action or an
\* assigner is called with one object {context, event, self, system} and the
\* action's params; the functions of WegoRoom.js name these two parameters
\* `context` and `event`.

Sessions == 1..MaxSessions

\* JavaScript values a turn can take besides the counting numbers
Undefined == 0 - 1
NaN == 0 - 2

JsPlus(a, b) == IF a \in {Undefined, NaN} THEN NaN ELSE a + b

\* what `context.turn` reads inside an action: the first parameter is the
\* arguments object, which has the keys context, event, self and system
ArgsTurn == Undefined

\* what `context.currentOrders` reads inside an action
ArgsCurrentOrders == Undefined

\* what `event` is inside an assigner: the params of the action, and the
\* machine gives its actions none
ArgsEvent == Undefined

NoPlayer == [joined |-> FALSE, connected |-> FALSE, hasSubmitted |-> FALSE]

\* The `orders` of a commit_orders message: an array of entries, or a value
\* that is no array.  The entries are strings with and without blanks around
\* them.
Entries == {"move", " move ", " "}

Messages ==
    [isArray : {FALSE}, entries : {<<>>}]
    \cup [isArray : {TRUE}, entries : {<<>>} \cup {<<a>> : a \in Entries}
                                        \cup {<<a, b>> : a, b \in Entries}]

\* `${entry ?? ""}`.trim()
Trim(entry) ==
    CASE entry = " move " -> "move"
      [] entry = " "      -> ""
      [] OTHER            -> entry

\* .slice(0, 32)
SliceLimit == 32

normalizeOrders(payload) ==
    IF ~ payload.isArray
    THEN <<>>
    ELSE LET trimmed == [i \in 1..Len(payload.entries) |-> Trim(payload.entries[i])]
             kept    == SelectSeq(trimmed, LAMBDA e : e # "")
         IN  SubSeq(kept, 1, IF Len(kept) < SliceLimit THEN Len(kept) ELSE SliceLimit)

\* A key that currentOrders does not have, and the object without keys.
NoEntry == [present |-> FALSE, orders |-> <<>>]
EmptyOrders == [s \in Sessions |-> NoEntry]

\* `new WegoState()` and the machine's context, before onCreate has run
NoRoom ==
    /\ roomPlayers = [s \in Sessions |-> NoPlayer]
    /\ roomPhase = "planning"
    /\ roomTurn = 1
    /\ contextTurn = 1
    /\ currentOrders = EmptyOrders
    /\ phaseActor = "none"
    /\ actorStatus = "none"
    /\ roomTimer = "none"
    /\ sentOrders = {}

allConnectedPlayersReady(players) ==
    LET connectedPlayers == {s \in Sessions : players[s].joined /\ players[s].connected}
    IN  IF Cardinality(connectedPlayers) < MinPlayersToAutoLock
        THEN FALSE
        ELSE \A s \in connectedPlayers : players[s].hasSubmitted

\* the players after planningEntry
PlanningReset(players) ==
    [s \in Sessions |->
        IF players[s].joined /\ players[s].connected
        THEN [players[s] EXCEPT !.hasSubmitted = FALSE]
        ELSE players[s]]

\* entry of `lock`: lockEntry
RoomEnterLock ==
    /\ phaseActor' = "lock"
    /\ roomPhase' = "lock"
    /\ roomTimer' = "LOCK_TIMEOUT"

\* entry of `planning`: planningEntry, syncTurnToState, then the eventless
\* transition to `lock` when its guard holds
RoomEnterPlanning ==
    /\ roomPlayers' = PlanningReset(roomPlayers)
    /\ currentOrders' = EmptyOrders
    /\ sentOrders' = {}
    /\ roomTurn' = ArgsTurn
    /\ IF allConnectedPlayersReady(roomPlayers')
       THEN RoomEnterLock
       ELSE /\ phaseActor' = "planning"
            /\ roomPhase' = "planning"
            /\ roomTimer' = "PLANNING_TIMEOUT"

\* an action threw inside a transition: the actor keeps its state value, goes
\* to status error and drops its timers
ActorError ==
    /\ actorStatus' = "error"
    /\ roomTimer' = "none"
    /\ UNCHANGED phaseActor

\* WegoRoom.onCreate
OnCreate ==
    /\ phaseActor = "none"
    /\ actorStatus' = "active"
    /\ RoomEnterPlanning
    /\ UNCHANGED <<engineVars, contextTurn>>

\* WegoRoom.onJoin, for a session id the room has not seen
OnJoin(s) ==
    /\ phaseActor # "none"
    /\ ~ roomPlayers[s].joined
    /\ roomPlayers' = [roomPlayers EXCEPT ![s] =
            [joined |-> TRUE, connected |-> TRUE, hasSubmitted |-> FALSE]]
    /\ UNCHANGED <<engineVars, roomPhase, roomTurn, contextTurn, currentOrders, phaseActor,
                   actorStatus, roomTimer, sentOrders>>

\* WegoRoom.onLeave
OnLeave(s) ==
    /\ roomPlayers[s].joined
    /\ roomPlayers[s].connected
    /\ roomPlayers' = [roomPlayers EXCEPT ![s] =
            [joined |-> TRUE, connected |-> FALSE, hasSubmitted |-> FALSE]]
    /\ UNCHANGED <<engineVars, roomPhase, roomTurn, contextTurn, currentOrders, phaseActor,
                   actorStatus, roomTimer, sentOrders>>

\* the `commit_orders` message of a connected client: COMMIT_ORDER is sent to
\* the actor.  An actor in status error drops it; an active one answers it in
\* `planning` with commitOrders, whose first statement reads
\* `event.sessionId`, and has no transition for it in the other states.
CommitOrders(s, payload) ==
    /\ roomPlayers[s].joined
    /\ roomPlayers[s].connected
    /\ sentOrders' = IF roomPhase = "planning" THEN sentOrders \cup {s} ELSE sentOrders
    /\ IF actorStatus = "active" /\ phaseActor = "planning"
       THEN IF ArgsEvent = Undefined
            THEN /\ ActorError
                 /\ UNCHANGED <<roomPlayers, roomPhase, currentOrders>>
            ELSE /\ roomPlayers' = [roomPlayers EXCEPT ![s].hasSubmitted = TRUE]
                 /\ currentOrders' = [currentOrders EXCEPT ![s] =
                        [present |-> TRUE, orders |-> normalizeOrders(payload)]]
                 /\ IF allConnectedPlayersReady(roomPlayers')
                    THEN RoomEnterLock
                    ELSE UNCHANGED <<phaseActor, roomPhase, roomTimer>>
                 /\ UNCHANGED actorStatus
       ELSE UNCHANGED <<roomPlayers, roomPhase, currentOrders, phaseActor, actorStatus, roomTimer>>
    /\ UNCHANGED <<engineVars, roomTurn, contextTurn>>

\* the delayed event of the state the actor is in
RoomTimeout ==
    /\ actorStatus = "active"
    /\ roomTimer # "none"
    /\ CASE phaseActor = "planning" ->
                /\ RoomEnterLock
                /\ UNCHANGED <<roomPlayers, roomTurn, contextTurn, currentOrders, actorStatus, sentOrders>>
         [] phaseActor = "lock" ->
                \* entry of `resolve`: resolveEntry, then resolveOrders, which
                \* calls Object.entries on `context.currentOrders`.  When it
                \* throws, resolveEntry has run or is still deferred,
                \* depending on the release of xstate 5.
                IF ArgsCurrentOrders = Undefined
                THEN /\ ActorError
                     /\ roomPhase' \in {"lock", "resolve"}
                     /\ UNCHANGED <<roomPlayers, roomTurn, contextTurn, currentOrders, sentOrders>>
                ELSE /\ phaseActor' = "resolve"
                     /\ roomPhase' = "resolve"
                     /\ roomTimer' = "RESOLVE_TIMEOUT"
                     /\ UNCHANGED <<roomPlayers, roomTurn, contextTurn, currentOrders, actorStatus, sentOrders>>
         [] phaseActor = "resolve" ->
                /\ phaseActor' = "apply"
                /\ roomPhase' = "apply"
                /\ roomTimer' = "APPLY_TIMEOUT"
                /\ UNCHANGED <<roomPlayers, roomTurn, contextTurn, currentOrders, actorStatus, sentOrders>>
         [] phaseActor = "apply" ->
                \* startNextTurn, then the entry of `planning`
                /\ contextTurn' = JsPlus(ArgsTurn, 1)
                /\ RoomEnterPlanning
                /\ UNCHANGED actorStatus
    /\ UNCHANGED engineVars

\* ------------------------------------------------------- specifications
InitSteps == InitFindLatest \/ InitCreateTurn \/ InitStart \/ InitEmit

HandlerSteps ==
    \/ HpNewTurn \/ HpRefreshGroup \/ HpRefreshMark \/ HpQuery \/ HpEmit
    \/ HrStamp \/ HrReadTurn \/ HrReadOrders \/ HrLoop \/ HrOwner
    \/ HrApplied \/ HrBattle \/ HrLosers \/ HrEmit
    \/ HcFlag \/ HcEmit

RequestSteps ==
    \/ \E s \in Slots :
          \/ SubmitThrow(s) \/ SubmitDelete(s) \/ SubmitCreate(s)
          \/ SubmitRefreshClear(s) \/ SubmitRefreshGroup(s) \/ SubmitRefreshMark(s)
          \/ SubmitQuery(s) \/ SubmitEmit(s)
    \/ \E c \in Countries : MarkReadyReturn(c) \/ MarkReadyEmit(c) \/ MarkReadyCheck(c)

\* The number of async functions in flight.
InFlight ==
    Cardinality({s \in Slots : calls[s].pc # "idle"})
    + Cardinality({c \in Countries : mr[c].pc # "idle"})
    + (IF hp.pc = "idle" THEN 0 ELSE 1)
    + (IF hr.pc = "idle" THEN 0 ELSE 1)
    + (IF hc.pc = "idle" THEN 0 ELSE 1)
    + (IF boot.pc = "done" THEN 0 ELSE 1)

\* The engine on Node's event loop: any function in flight may take its next
\* step, and a request may arrive or a scheduled timer fire at any time, also
\* while other functions are in flight (at most MaxInFlight of them).  The
\* requests are colonization claims on province 1 and markReady calls.
Admit == InFlight < MaxInFlight

AsyncPayloads == {input \in Payloads : input.type = "START_COLONIZATION" /\ input.provinceId = 1}

Next ==
    \/ InitSteps
    \/ Admit /\ PlanningTimeout
    \/ Admit /\ ResolveTimeout
    \/ Admit /\ CommitTimeout
    \/ \E s \in Slots, c \in Countries, input \in AsyncPayloads :
          /\ Admit
          /\ PhaseAllowsOrders(currentPhase)
                => nextOrderId + Cardinality(Creating) <= AsyncOrders
          /\ SubmitOrder(s, c, input)
    \/ \E c \in Countries : Admit /\ MarkReady(c)
    \/ HandlerSteps
    \/ RequestSteps

Init == InitWith(1..AsyncCountries) /\ NoRoom

Spec == Init /\ [][Next]_vars

\* The engine when every request and every phase handler runs to its end
\* before the next request arrives or the next timer fires; the requests
\* include bodies that the schema does not accept.
NextSerial ==
    \/ InitSteps
    \/ Quiet /\ PlanningTimeout
    \/ Quiet /\ ResolveTimeout
    \/ Quiet /\ CommitTimeout
    \/ \E s \in Slots, c \in Countries, input \in Payloads \cup InvalidPayloads :
          Quiet /\ SubmitOrder(s, c, input)
    \/ \E c \in 1..SerialReady : Quiet /\ MarkReady(c)
    \/ HandlerSteps
    \/ RequestSteps

InitSerial == InitWith(Countries) /\ NoRoom

SpecSerial == InitSerial /\ [][NextSerial]_vars

\* The engine with one registered country, whose requests arrive one at a
\* time per kind, under the assumptions of progress: a timer that is
\* scheduled eventually fires, and an awaited persistence call eventually
\* returns, so that a function in flight eventually takes its next step.
\* Nothing is assumed about the arrival of requests.  As in Spec at most
\* MaxInFlight functions are in flight at once; the fairness of the timers is
\* strong, so that no stream of requests keeps a scheduled timer from firing.
LiveCountries == {1}

\* With one country no province has two orders of a turn, so the steps of
\* the contested branch (HrOwner, HrBattle, HrLosers, SubmitQuery) do not occur.
LiveHandlerSteps ==
    \/ HpNewTurn \/ HpRefreshGroup \/ HpRefreshMark \/ HpQuery \/ HpEmit
    \/ HrStamp \/ HrReadTurn \/ HrReadOrders \/ HrLoop \/ HrApplied \/ HrEmit
    \/ HcFlag \/ HcEmit

LiveRequestSteps ==
    \/ \E s \in Slots :
          \/ SubmitThrow(s) \/ SubmitDelete(s) \/ SubmitCreate(s)
          \/ SubmitRefreshClear(s) \/ SubmitRefreshGroup(s) \/ SubmitRefreshMark(s)
          \/ SubmitEmit(s)
    \/ \E c \in Countries : MarkReadyReturn(c) \/ MarkReadyEmit(c) \/ MarkReadyCheck(c)

NextLive ==
    \/ InitSteps
    \/ Admit /\ PlanningTimeout
    \/ Admit /\ ResolveTimeout
    \/ Admit /\ CommitTimeout
    \/ \E c \in LiveCountries, input \in AsyncPayloads :
          /\ Admit
          /\ PhaseAllowsOrders(currentPhase)
                => nextOrderId + Cardinality(Creating) <= AsyncOrders
          /\ SubmitOrder(1, c, input)
    \/ \E c \in LiveCountries : Admit /\ MarkReady(c)
    \/ LiveHandlerSteps
    \/ LiveRequestSteps

InitLive == InitWith(LiveCountries) /\ NoRoom

Fairness ==
    /\ WF_vars(InitSteps)
    /\ SF_vars(Admit /\ PlanningTimeout)
    /\ SF_vars(Admit /\ ResolveTimeout)
    /\ SF_vars(Admit /\ CommitTimeout)
    /\ WF_vars(LiveHandlerSteps)
    /\ WF_vars(LiveRequestSteps)

SpecLive == InitLive /\ [][NextLive]_vars /\ Fairness

\* The engine when the only requests are markReady calls, with up to
\* ReadyInFlight functions in flight at once: a resolve handler that is still
\* waiting, the planning handler of the next turn and a markReady call can
\* overlap.  No order is submitted, so the steps that handle orders do not
\* occur.
AdmitReady == InFlight < ReadyInFlight

ReadyHandlerSteps ==
    \/ HpNewTurn \/ HpRefreshGroup \/ HpRefreshMark \/ HpQuery \/ HpEmit
    \/ HrStamp \/ HrReadTurn \/ HrReadOrders \/ HrLoop \/ HrEmit
    \/ HcFlag \/ HcEmit

ReadyRequestSteps ==
    \E c \in Countries : MarkReadyReturn(c) \/ MarkReadyEmit(c) \/ MarkReadyCheck(c)

NextReady ==
    \/ InitSteps
    \/ AdmitReady /\ PlanningTimeout
    \/ AdmitReady /\ ResolveTimeout
    \/ AdmitReady /\ CommitTimeout
    \/ \E c \in Countries : AdmitReady /\ MarkReady(c)
    \/ ReadyHandlerSteps
    \/ ReadyRequestSteps

SpecReady == Init /\ [][NextReady]_vars

\* The engine when markReady is called with any country id, registered or
\* not; no order is submitted.
NextAnyId ==
    \/ InitSteps
    \/ Admit /\ PlanningTimeout
    \/ Admit /\ ResolveTimeout
    \/ Admit /\ CommitTimeout
    \/ \E c \in Countries : Admit /\ EngineMarkReady(c)
    \/ ReadyHandlerSteps
    \/ ReadyRequestSteps

SpecAnyId == Init /\ [][NextAnyId]_vars

\* The engine when the resolve handler is run again on the turn it has just
\* resolved: as SpecSerial, with colonization claims on province 1 as the
\* only requests, and with a second call of handleEnterResolve once the first
\* has returned.  The second call runs up to its first await.
Rerun ==
    /\ Quiet
    /\ currentPhase = "resolve"
    /\ nextBattleId <= MaxBattleId + 1
    /\ currentPhase' = "resolve"
    /\ phaseEndsAt' = NoDeadline
    /\ hr' = [hr EXCEPT !.pc = "stamp", !.countries = countries]
    /\ UNCHANGED <<roomVars, dbVars, currentTurnId, currentTurnNumber, readyCountries, needsNewTurn,
                   actorVars, boot, hp, hc, calls, mr, outVars>>

SubmitSteps ==
    \E s \in Slots :
        \/ SubmitThrow(s) \/ SubmitDelete(s) \/ SubmitCreate(s)
        \/ SubmitRefreshClear(s) \/ SubmitRefreshGroup(s) \/ SubmitRefreshMark(s)
        \/ SubmitQuery(s) \/ SubmitEmit(s)

NextRerun ==
    \/ InitSteps
    \/ Quiet /\ PlanningTimeout
    \/ Quiet /\ ResolveTimeout
    \/ Quiet /\ CommitTimeout
    \/ \E s \in Slots, c \in Countries, input \in AsyncPayloads :
          Quiet /\ SubmitOrder(s, c, input)
    \/ Rerun
    \/ HandlerSteps
    \/ SubmitSteps

SpecRerun == InitSerial /\ [][NextRerun]_vars

\* The server starts on a database that earlier runs have left Turn rows
\* in, and then runs its phases without requests, every handler to its end
\* before the next timer fires.
InitBoot == \E table \in PersistedTurns : InitOn(1..AsyncCountries, table) /\ NoRoom

NextBoot ==
    \/ InitSteps
    \/ Quiet /\ PlanningTimeout
    \/ Quiet /\ ResolveTimeout
    \/ Quiet /\ CommitTimeout
    \/ ReadyHandlerSteps

SpecBoot == InitBoot /\ [][NextBoot]_vars

\* The process stops while the resolve handler is in flight and the server is
\* started again: the tables are as the stopped process left them, and
\* `new WeGoEngine(io)` gives a fresh engine whose init has not yet run.
Restart ==
    /\ boot.pc = "done"
    /\ hr.pc # "idle"
    /\ currentTurnId' = NULL
    /\ currentTurnNumber' = 1
    /\ currentPhase' = "planning"
    /\ phaseEndsAt' = NoDeadline
    /\ readyCountries' = {}
    /\ needsNewTurn' = FALSE
    /\ machineState' = "stopped"
    /\ timer' = "none"
    /\ lastEvent' = "none"
    /\ boot' = [pc |-> "start", latest |-> NULL, provs |-> NoProvinces]
    /\ hp' = IdleHandler
    /\ hr' = IdleResolve
    /\ hc' = IdleHandler
    /\ calls' = [s \in Slots |-> IdleCall]
    /\ mr' = [c \in Countries |-> IdleReady]
    /\ calledReady' = {}
    /\ UNCHANGED <<roomVars, dbVars, emitted>>

\* The engine with restarts: requests and handlers run one at a time, the
\* requests are colonization claims on province 1, and the process may stop
\* during a resolve handler and start again.
NextCrash ==
    \/ InitSteps
    \/ Quiet /\ PlanningTimeout
    \/ Quiet /\ ResolveTimeout
    \/ Quiet /\ CommitTimeout
    \/ \E s \in Slots, c \in Countries, input \in AsyncPayloads :
          Quiet /\ SubmitOrder(s, c, input)
    \/ Restart
    \/ HandlerSteps
    \/ SubmitSteps

SpecCrash == Init /\ [][NextCrash]_vars

\* The sandbox room on its own: the room is created, clients join, send
\* commit_orders and leave, and the phase timers fire.
RoomSteps ==
    \/ \E s \in Sessions : OnJoin(s)
    \/ \E s \in Sessions : OnLeave(s)
    \/ \E s \in Sessions, payload \in Messages : CommitOrders(s, payload)

NextRoom ==
    \/ OnCreate
    \/ RoomTimeout
    \/ RoomSteps

InitRoom == InitWith({}) /\ NoRoom

SpecRoom == InitRoom /\ [][NextRoom]_vars

\* ==================================================================
\* Properties
\* ==================================================================

\* The Order rows with the key (turnId, countryId, type, provinceId).
RowsFor(table, turnId, countryId, type, provinceId) ==
    {o \in table : /\ o.turnId = turnId
                   /\ o.countryId = countryId
                   /\ o.type = type
                   /\ o.provinceId = provinceId}

\* The colonization claims of turn turnId on province p.
Claims(turnId, p) == {o \in ColonizationOrders(orders, turnId) : o.provinceId = p}

\* The resolve handler of the current turn has run to its end.
Resolved == currentPhase \in {"resolve", "commit"} /\ hr.pc = "idle"

\* The score of country c for province p under the seed of turn turnId, once
\* a resolve handler has computed it.
Scored(turnId, c, p) == ScoreKey(turns[turnId].seed, c, p) \in DOMAIN digest

ScoreOf(turnId, c, p) == hashToScore(digest, ScoreKey(turns[turnId].seed, c, p))

\* Country a's score for p is not below country b's.
NotBelow(turnId, a, b, p) ==
    (Scored(turnId, a, p) /\ Scored(turnId, b, p))
    => ScoreOf(turnId, a, p) >= ScoreOf(turnId, b, p)

\* The steps of the submitOrder call in slot s that met a phase other than
\* planning: its arrival, and the settling of its rejection.
RejectedCallStep(s) ==
    \/ /\ currentPhase \in {"resolve", "commit"}
       /\ calls[s].pc = "idle"
       /\ calls'[s].pc # "idle"
    \/ /\ calls[s].pc = "threw"
       /\ calls'[s].pc # "threw"

\* C1 -- Phase guard: a submitOrder call that arrives while the phase is
\* resolve or commit throws, and no step of the call changes the Order
\* rows, the Province rows, the ReadySet, the current turn or the last
\* emitted snapshot.
C1_PhaseGuard ==
    [][\A s \in Slots :
          RejectedCallStep(s)
          => /\ calls'[s].pc = (IF calls[s].pc = "idle" THEN "threw" ELSE "idle")
             /\ UNCHANGED <<orders, provinces, readyCountries, turns,
                            currentTurnId, currentTurnNumber, emitted>>]_vars

\* A call that arrived during commit, in a turn that has orders, has thrown.
C1_Witness == Thrown /\ currentPhase = "commit" /\ orders # {}

\* The submitOrder calls that have created their row and not yet returned.
Created == {s \in Slots : calls[s].pc \in {"refreshClear", "refreshGroup", "refreshMark",
                                           "query", "emit"}}

\* C2 -- Idempotent resubmission: when calls are made one after the other,
\* a submission, also one that repeats an earlier (type, provinceId) of the
\* same country in the same planning phase, leaves exactly one Order row
\* with the key (current turn, country, type, provinceId), the row is
\* PLANNED and carries the targetProvinceId of this submission.
C2_Resubmission ==
    \A s \in Created :
        LET input == calls[s].input
            rows  == RowsFor(orders, currentTurnId, calls[s].countryId,
                             input.type, input.provinceId)
        IN  /\ Cardinality(rows) = 1
            /\ \A o \in rows : /\ o.targetProvinceId = input.targetProvinceId
                               /\ o.status = "PLANNED"

\* The second of two creates has run, one row remains, and it has the
\* target of the submission that is about to return.
C2_Witness ==
    /\ nextOrderId = 3
    /\ Cardinality(orders) = 1
    /\ calls[1].pc = "emit"
    /\ calls[1].input.targetProvinceId = 1
    /\ \E o \in orders : o.id = 2 /\ o.targetProvinceId = 1

\* C3 -- At most one Order row per (turnId, countryId, type, provinceId) in
\* every reachable state, also with several submitOrder calls in flight.
C3_OneRowPerKey ==
    \A o1, o2 \in orders :
        (/\ o1.turnId = o2.turnId
         /\ o1.countryId = o2.countryId
         /\ o1.type = o2.type
         /\ o1.provinceId = o2.provinceId) => o1 = o2

\* C4 -- Exhaustiveness: once the resolve handler has finished, every order
\* of the turn, of every type, is APPLIED or REJECTED.
C4_Exhaustive ==
    Resolved => \A o \in orders :
                   o.turnId = currentTurnId => o.status \in {"APPLIED", "REJECTED"}

\* The province whose orders the resolve handler has just ranked.
RankedProvince == hr.keys[hr.i]

\* C5 -- Determinism: whatever order the turn's orders are iterated in, the
\* same seed and the same rows give the same winner, and so the same
\* statuses and Province values.
C5_Determinism ==
    hr.pc = "applied" =>
        \A q \in Orderings(Range(hr.orders)) :
            Ranked(digest, ProvinceOrders(q, RankedProvince), hr.seed,
                   RankedProvince)[1].order.countryId
            = hr.ranked[1].order.countryId

\* C6 -- Tie-break: among the contenders that share the highest score the
\* one with the smallest countryId wins, whatever the stored order.
C6_TieBreak ==
    hr.pc = "applied" =>
        LET top == {hr.ranked[k].order.countryId :
                      k \in {j \in 1..Len(hr.ranked) : hr.ranked[j].score = hr.ranked[1].score}}
        IN  \A c \in top : hr.ranked[1].order.countryId <= c

\* The submitOrder calls that are replacing a claim on province p: their
\* deleteMany has run and their create has not.
Replacing(p) ==
    {s \in Slots : /\ calls[s].pc = "create"
                   /\ calls[s].input.type = "START_COLONIZATION"
                   /\ calls[s].input.provinceId = p}

\* The START_COLONIZATION orders province p has in the current turn, an
\* order that is being replaced counted as one.
ClaimCount(p) == Cardinality(Claims(currentTurnId, p)) + Cardinality(Replacing(p))

\* C7 -- Sole-claim pass-through: a province is not flagged contested as
\* long as it has no more than one START_COLONIZATION order in the current
\* turn (so a province with exactly one such order in the turn is never
\* flagged), and once the resolve handler has finished with exactly one
\* order, that order is APPLIED and its country owns the province.
C7_SoleClaim ==
    \A p \in Provinces :
        /\ ClaimCount(p) <= 1 => ~ provinces[p].contested
        /\ (Resolved /\ ClaimCount(p) = 1)
           => \A o \in Claims(currentTurnId, p) :
                 /\ o.status = "APPLIED"
                 /\ provinces[p].ownerCountryId = o.countryId

\* C8 -- Contested outcome: once the resolve handler has finished, a
\* province with two or more START_COLONIZATION orders in the turn is owned
\* by a contender whose hashToScore(seed:countryId:provinceId) no other
\* contender exceeds, and it is not flagged contested.
C8_ContestedOutcome ==
    Resolved =>
        \A p \in Provinces :
            LET cl == Claims(currentTurnId, p)
            IN  Cardinality(cl) >= 2
                => /\ ~ provinces[p].contested
                   /\ \E w \in cl :
                         /\ provinces[p].ownerCountryId = w.countryId
                         /\ \A o \in cl :
                               NotBelow(currentTurnId, w.countryId, o.countryId, p)

\* Turn turnId has been resolved.
TurnResolved(turnId) == turnId < currentTurnId \/ (turnId = currentTurnId /\ Resolved)

BattlesOf(turnId, p) == {b \in battles : b.turnId = turnId /\ b.provinceId = p}

\* C9 -- Resolution records: a resolved turn has, for a province, one Battle
\* row if the province had two or more START_COLONIZATION orders in the turn
\* and none otherwise; the row's attackerId and winnerCountryId are the
\* country of the applied order, the province's new owner, and its
\* defenderId is a contender ranked second: another contender, whose score
\* no contender but the winner exceeds.
C9_ResolutionRecords ==
    \A t \in 1..Len(turns), p \in Provinces :
        LET cl == Claims(t, p)
            bs == BattlesOf(t, p)
        IN  TurnResolved(t) =>
              IF Cardinality(cl) >= 2
              THEN /\ Cardinality(bs) = 1
                   /\ \A b \in bs :
                        /\ b.winnerCountryId = b.attackerId
                        /\ \E o \in cl : o.countryId = b.attackerId /\ o.status = "APPLIED"
                        /\ t = currentTurnId => provinces[p].ownerCountryId = b.attackerId
                        /\ b.defenderId # b.attackerId
                        /\ \E o \in cl : o.countryId = b.defenderId
                        /\ \A o \in cl : o.countryId # b.attackerId
                              => NotBelow(t, b.defenderId, o.countryId, p)
              ELSE bs = {}

\* No markReady call is in flight.
ReadyCallsDone == \A c \in Countries : mr[c].pc = "idle"

\* C10 -- All-ready early exit: when every known country has called
\* markReady in the open planning phase and every call has run to its end,
\* the scheduler is no longer in planning: it has left for resolve without
\* waiting for the planning timeout.
C10_AllReadyExit ==
    (countries # {} /\ countries \subseteq calledReady /\ ReadyCallsDone)
    => machineState # "planning"

\* Resolve has been entered on ALL_READY, with the planning timer unfired,
\* and the calls of both countries have returned.
C10_Witness ==
    /\ machineState = "resolve"
    /\ lastEvent = "ALL_READY"
    /\ hr.pc = "stamp"
    /\ readyCountries = countries
    /\ Cardinality(countries) >= 2
    /\ ReadyCallsDone

\* The steps of the markReady call of country c that met a phase other than
\* planning: its arrival, and the settling of its promise.
IgnoredCallStep(c) ==
    \/ /\ currentPhase \in {"resolve", "commit"}
       /\ mr[c].pc = "idle"
       /\ mr'[c].pc # "idle"
    \/ /\ mr[c].pc = "returned"
       /\ mr'[c].pc # "returned"
       /\ Running'

\* C11 -- markReady outside planning: a markReady call that arrives while
\* the phase is resolve or commit returns at once, and no step of the call
\* changes the ReadySet, the phase, the actor's state and timer (no
\* ALL_READY is sent), the Turn rows, the current turn, the Order rows or
\* the last emitted snapshot.
C11_ReadyNoOp ==
    [][\A c \in Countries :
          IgnoredCallStep(c)
          => /\ mr'[c].pc = (IF mr[c].pc = "idle" THEN "returned" ELSE "idle")
             /\ UNCHANGED <<readyCountries, calledReady, currentPhase, phaseEndsAt,
                            actorVars, turns, currentTurnId, currentTurnNumber,
                            orders, emitted>>]_vars

\* A call of country 2 that arrived during resolve has returned, before the
\* resolve handler has stamped the countries ready.
C11_Witness ==
    /\ mr[2].pc = "returned"
    /\ currentPhase = "resolve"
    /\ hr.pc = "stamp"
    /\ readyCountries = {}

\* A markReady call of country c arrives in planning after an earlier call of
\* c in the same planning phase.
RepeatArrival(c) == mr[c].pc = "idle" /\ mr'[c].pc = "emit" /\ c \in calledReady

\* The size check of such a call.
RepeatCheck(c) == mr[c].pc = "check" /\ mr[c].again /\ mr'[c].pc = "idle" /\ Running'

\* What a repeated call may do to the scheduler: nothing, or the move from
\* planning to resolve when every country has called markReady in the open
\* planning phase (the move their first calls cause).
RepeatAdvance ==
    \/ UNCHANGED <<actorVars, currentPhase>>
    \/ /\ machineState = "planning"
       /\ machineState' = "resolve"
       /\ countries \subseteq calledReady

\* C12 -- markReady is idempotent: a call of a country that has already
\* called in the same planning phase leaves the ReadySet as it is, and its
\* ALL_READY moves the scheduler only from planning to resolve and only when
\* every country has called; sent in any other state it is dropped.
C12_Idempotent ==
    [][\A c \in Countries :
          /\ RepeatArrival(c) => UNCHANGED <<readyCountries, calledReady, actorVars, currentPhase>>
          /\ RepeatCheck(c) => (RepeatAdvance /\ UNCHANGED readyCountries)]_vars

\* The second call of country 1 is at its size check, in planning, with
\* every country in the ReadySet.
C12_Witness ==
    /\ mr[1].pc = "check"
    /\ mr[1].again
    /\ machineState = "planning"
    /\ readyCountries = countries
    /\ AllReady(mr[1].total, readyCountries)

\* The steps of the submitOrder call in slot s that arrived in planning with
\* a payload the schema does not accept: its arrival, and the settling of
\* its rejection.
InvalidCallStep(s) ==
    \/ /\ currentPhase = "planning"
       /\ calls[s].pc = "idle"
       /\ calls'[s].pc # "idle"
       /\ calls'[s].input \in InvalidPayloads
    \/ /\ calls[s].pc = "threw"
       /\ calls[s].input \in InvalidPayloads
       /\ calls'[s].pc # "threw"

\* C13 -- InvalidOrder: a submitOrder call during planning whose payload has
\* a type outside the enum or an empty provinceId throws, and no step of the
\* call creates or deletes an Order row, creates or changes a Province row
\* or emits a snapshot.
C13_InvalidOrder ==
    [][\A s \in Slots :
          InvalidCallStep(s)
          => /\ calls'[s].pc = (IF calls[s].pc = "idle" THEN "threw" ELSE "idle")
             /\ UNCHANGED <<orders, nextOrderId, provinces, emitted>>]_vars

\* A call with an empty provinceId has thrown during planning, in a turn
\* that has an order.
C13_Witness ==
    /\ currentPhase = "planning"
    /\ \E s \in Slots : calls[s].pc = "threw" /\ calls[s].input.provinceId = NULL
    /\ orders # {}

\* The phase changes of one cycle.
PhaseCycle == {<<"planning", "resolve">>, <<"resolve", "commit">>, <<"commit", "planning">>}

\* The running actor enters a state: an entry handler starts.
PhaseEntered ==
    /\ machineState # "stopped"
    /\ \/ hp.pc = "idle" /\ hp'.pc # "idle"
       \/ hr.pc = "idle" /\ hr'.pc # "idle"
       \/ hc.pc = "idle" /\ hc'.pc # "idle"

\* C14 -- Phase order: the in-memory phase changes only from planning to
\* resolve, from resolve to commit and from commit to planning, and every
\* entry of the running actor into a state is such a change (no phase is
\* skipped, entered twice in a row or entered out of order); the phase is
\* the actor's state.
C14_PhaseOrder ==
    [][/\ currentPhase' # currentPhase => <<currentPhase, currentPhase'>> \in PhaseCycle
       /\ PhaseEntered => (currentPhase' # currentPhase /\ currentPhase' = machineState')
       /\ (machineState' # machineState /\ Running') => currentPhase' = machineState']_vars

\* The engine is in planning for the second time, having gone through
\* resolve and commit.
C14_Witness ==
    /\ currentPhase = "planning"
    /\ lastEvent = "COMMIT_TIMEOUT"
    /\ \E t \in 1..Len(turns) : turns[t].committed

\* C15 -- Progress: under the assumptions of SpecLive, whenever the current
\* turn is not the last one the model has room for, that turn is eventually
\* committed and a turn with a higher number becomes the current turn,
\* whatever submitOrder and markReady calls arrive.
C15_Progress ==
    (currentTurnNumber < MaxTurn)
    ~> (/\ currentTurnNumber = MaxTurn
        /\ \A t \in 1..Len(turns) : turns[t].turnNumber < MaxTurn => turns[t].committed)

\* The actor goes from commit to planning.
CommitToPlanning == machineState = "commit" /\ machineState' = "planning"

\* No two Turn rows have the same number.
UniqueTurnNumbers(table) ==
    \A a, b \in 1..Len(table) : table[a].turnNumber = table[b].turnNumber => a = b

\* C16 -- New turn per cycle: every transition from commit to planning
\* creates one Turn row, whose number is the current turn's number plus one
\* and which the planning handler is about to make the current turn; turn
\* numbers are unique and the current turn number never decreases.
C16_NewTurn ==
    [][/\ CommitToPlanning
          => /\ Len(turns') = Len(turns) + 1
             /\ turns'[Len(turns')].turnNumber = currentTurnNumber + 1
             /\ hp'.created = Len(turns')
       /\ currentTurnNumber' >= currentTurnNumber
       /\ UniqueTurnNumbers(turns')]_vars

\* A function of the engine has built a snapshot (its province query has
\* returned) and its next step emits it as 'game:state'.
EmitDue ==
    \/ boot.pc = "emit" \/ hp.pc = "emit" \/ hr.pc = "emit" \/ hc.pc = "emit"
    \/ \E s \in Slots : calls[s].pc = "emit"
    \/ \E c \in Countries : mr[c].pc = "emit"

\* C17 -- Snapshot on every mutation: after the entry into planning, resolve
\* or commit, after the order.create of a submitOrder call and after the
\* ReadySet change of a markReady call, a function of the engine eventually
\* holds a snapshot that was built after the change and is about to emit it.
C17_SnapshotFollows ==
    /\ (hp.pc \in {"newTurn", "query"}) ~> EmitDue
    /\ (hr.pc = "stamp") ~> EmitDue
    /\ (hc.pc = "flag") ~> EmitDue
    /\ (\E s \in Slots : calls[s].pc = "refreshClear") ~> EmitDue
    /\ \A c \in Countries : (c \in calledReady) ~> (EmitDue \/ mr[c].pc = "check")

\* Province p had a row while a turn with a number below n was the current
\* turn: that turn has an order on p, and submitOrder creates the province
\* before the order.
ExistedBefore(p, n) ==
    \E o \in orders : o.provinceId = p /\ turns[o.turnId].turnNumber < n

\* C18 -- Snapshot consistency: an emitted snapshot is the engine's state at
\* one instant.  Province rows are never deleted and the current turn number
\* never decreases, so at every instant at which the engine's turn number is
\* n the province list holds every province that existed during an earlier
\* turn; the same is therefore true of every snapshot with turnNumber n.
C18_SnapshotConsistent ==
    \A p \in Provinces :
        ExistedBefore(p, emitted.turnNumber) => emitted.provinces[p].exists

\* The actor goes from planning to resolve.
PlanningToResolve == machineState = "planning" /\ machineState' = "resolve"

\* C20 -- Planning exit condition: the actor leaves planning for resolve
\* only on the planning timeout of the open planning phase, or on an
\* ALL_READY that is sent while every known country is in the ReadySet and
\* has called markReady in the open planning phase.
C20_PlanningExit ==
    [][PlanningToResolve
          => \/ lastEvent' = "PLANNING_TIMEOUT" /\ timer = "PLANNING_TIMEOUT"
             \/ /\ lastEvent' = "ALL_READY"
                /\ countries \subseteq readyCountries
                /\ countries \subseteq calledReady]_vars


RoomCycle ==
    {<<"planning", "lock">>, <<"lock", "resolve">>, <<"resolve", "apply">>, <<"apply", "planning">>}

RoomLoopStep ==
    /\ roomPhase' # roomPhase => <<roomPhase, roomPhase'>> \in RoomCycle
    /\ (roomPhase = "apply" /\ roomPhase' = "planning") => contextTurn' = contextTurn + 1
    /\ contextTurn' # contextTurn => (roomPhase = "apply" /\ roomPhase' = "planning")

\* C19: the sandbox room's phase changes only along planning -> lock ->
\* resolve -> apply -> planning, the phase machine's turn grows by exactly one
\* on each apply -> planning and changes at no other time, and whenever the
\* room's machine is in planning room.state.turn equals the machine's turn.
C19_RoomLoop ==
    /\ [][RoomLoopStep]_vars
    /\ [](phaseActor = "planning" => roomTurn = contextTurn)


\* C21 -- Auto-ready: every snapshot that reports the phase resolve or commit
\* reports every known country as ready and no phase deadline.
C21_AutoReady ==
    emitted.phase \in {"resolve", "commit"}
        => /\ countries \subseteq emitted.readyCountries
           /\ emitted.phaseEndsAt = NoDeadline


\* The actor enters planning.
PlanningEntered == machineState # "planning" /\ machineState' = "planning"

\* C22 -- ReadySet reset: when the engine enters planning, from commit or at
\* start-up, the ReadySet is empty, and no other step takes a country out of
\* the ReadySet.
C22_ReadyReset ==
    [][/\ PlanningEntered => readyCountries' = {}
       /\ ~ (readyCountries \subseteq readyCountries') => PlanningEntered]_vars

\* Planning has just been entered from commit, after the resolve handler of
\* the turn had stamped every country ready and finished.
C22_Witness ==
    /\ machineState = "planning"
    /\ lastEvent = "COMMIT_TIMEOUT"
    /\ hp.pc \in {"newTurn", "query"}
    /\ hr.pc = "idle"
    /\ readyCountries = {}
    /\ emitted.phase = "commit"
    /\ emitted.readyCountries = countries


DelayOf(state) ==
    CASE state = "planning" -> "PLANNING_TIMEOUT"
      [] state = "resolve" -> "RESOLVE_TIMEOUT"
      [] state = "commit" -> "COMMIT_TIMEOUT"
      [] OTHER -> "none"

\* Planning is left early, on ALL_READY.
EarlyExit ==
    machineState = "planning" /\ machineState' = "resolve" /\ lastEvent' = "ALL_READY"

HandlersDone == Running /\ hp.pc = "idle" /\ hr.pc = "idle" /\ hc.pc = "idle"

\* C25 -- No phase divergence: when no phase-entry handler is in flight, the
\* phase stored in the current Turn row is the engine's in-memory phase.
C25_NoDivergence == HandlersDone => turns[currentTurnId].phase = currentPhase


\* The START_COLONIZATION orders of turn tid on province p.
ClaimsOn(table, tid, p) ==
    {o \in table : o.turnId = tid /\ o.type = "START_COLONIZATION" /\ o.provinceId = p}

\* A submitOrder call returns.
SubmitReturns == \E s \in Slots : calls[s].pc = "emit" /\ calls'[s].pc = "idle"

\* The planning handler that opened a new turn returns.
NewTurnOpened ==
    /\ hp.pc = "emit" /\ hp'.pc = "idle"
    /\ lastEvent = "COMMIT_TIMEOUT"
    /\ Running'

\* C26 -- Contest flags follow the ledger: when a submitOrder call that ran in
\* planning with nothing interleaved returns, a province is contested if and
\* only if the current turn has two or more START_COLONIZATION orders on it;
\* and when the planning handler that opened a new turn returns, no province
\* is contested.
C26_ContestFlags ==
    [][/\ SubmitReturns
             => \A p \in Provinces :
                   provinces'[p].contested
                      <=> Cardinality(ClaimsOn(orders', currentTurnId', p)) >= 2
       /\ NewTurnOpened => \A p \in Provinces : ~ provinces'[p].contested]_vars

\* A submitOrder call has returned and left province 1 contested, with the
\* claims of two countries on it in the current turn.
C26_Witness ==
    /\ Quiet
    /\ currentPhase = "planning"
    /\ provinces[1].contested
    /\ emitted.provinces[1].contested
    /\ Cardinality(ClaimsOn(orders, currentTurnId, 1)) = 2


\* C27 -- Winner and losers: once the resolve handler has finished, every
\* province with a START_COLONIZATION order of the turn has exactly one such
\* order with status APPLIED, the country of that order owns the province,
\* and every other START_COLONIZATION order on the province is REJECTED.
C27_WinnerAndLosers ==
    Resolved =>
        \A p \in Provinces :
            LET cl == Claims(currentTurnId, p)
            IN  cl # {}
                => \E w \in cl :
                      /\ w.status = "APPLIED"
                      /\ provinces[p].ownerCountryId = w.countryId
                      /\ \A o \in cl \ {w} : o.status = "REJECTED"


\* The actor enters resolve.
ResolveEntered == machineState = "planning" /\ machineState' = "resolve"

\* The actor enters commit.
CommitEntered == machineState = "resolve" /\ machineState' = "commit"

\* The conflict resolver reads the orders it is going to resolve.
ResolverReads == hr.pc = "readOrders" /\ hr'.pc = "loop"

\* A turn is not resolved a second time: resolve is not entered on a turn
\* that has been through resolve and commit.
ResolvedOnceStep == ResolveEntered => ~ turns[currentTurnId].committed

\* The resolver reads the orders of the turn resolve was entered on, while
\* the engine is in that resolve phase.
ResolvesOpenTurnStep ==
    ResolverReads => (currentPhase = "resolve" /\ ~ turns[currentTurnId].committed)

\* Commit is not entered before the resolver has run.
ResolvedBeforeCommitStep == CommitEntered => hr.pc = "idle"

\* C28 -- Resolution runs once per turn: the resolver runs once for each
\* turn, on the orders of the turn that was open when resolve was entered;
\* no turn is resolved twice and none reaches commit unresolved.
C28_ResolveOnce ==
    [][ResolvedOnceStep /\ ResolvesOpenTurnStep /\ ResolvedBeforeCommitStep]_vars


\* The resolve handler is at work on orders that a run of the handler has
\* already resolved: none of the rows it read is PLANNED.
Rerunning ==
    /\ hr.pc \in {"loop", "owner", "applied", "battle", "losers"}
    /\ hr.orders # <<>>
    /\ \A i \in 1..Len(hr.orders) : hr.orders[i].status # "PLANNED"

\* The second run's loop is over.
RerunOver == Rerunning /\ hr'.pc = "emit"

\* C29 -- Idempotent re-application: a second run of the resolve handler on
\* a turn whose orders the first run has resolved changes no Order row and
\* no Province owner, and leaves no province contested, as the first run did.
C29_Reapply ==
    [][/\ Rerunning
             => /\ orders' = orders
                /\ \A p \in Provinces :
                      provinces'[p].ownerCountryId = provinces[p].ownerCountryId
       /\ RerunOver => \A p \in Provinces : ~ provinces'[p].contested]_vars


\* ensurePlanningTurn acts on the row that findFirst returned.
BootDecides == boot.pc = "latest" /\ boot'.pc # "latest"

\* Turn row t has the highest number of the table and is in planning.
OpenLatest(t) ==
    /\ turns[t].phase = "planning"
    /\ \A u \in 1..Len(turns) : turns[u].turnNumber <= turns[t].turnNumber

\* C30 -- Start-up: when the highest-numbered persisted Turn is in planning,
\* init makes it the current turn, with its id and number as they were, and
\* creates no Turn row; in every other case init creates a planning turn,
\* and that turn is turn 1.
C30_StartUp ==
    [][BootDecides
          => IF \E t \in 1..Len(turns) : OpenLatest(t)
             THEN /\ Len(turns') = Len(turns)
                  /\ \E t \in 1..Len(turns) :
                        /\ OpenLatest(t)
                        /\ currentTurnId' = t
                        /\ currentTurnNumber' = turns[t].turnNumber
                        /\ turns'[t].turnNumber = turns[t].turnNumber
             ELSE /\ Len(turns') = Len(turns) + 1
                  /\ turns'[Len(turns')].phase = "planning"
                  /\ turns'[Len(turns')].turnNumber = 1]_vars


\* Turn t is behind the running engine: the engine's current turn is a later one.
Behind(t) == boot.pc = "done" /\ turns[t].turnNumber < currentTurnNumber

\* The colonization order o of turn t is the one that took its province.
Won(o) ==
    /\ o.status = "APPLIED"
    /\ provinces[o.provinceId].ownerCountryId = o.countryId

\* C31 -- Crash during resolve: when the process stops inside the resolve
\* handler of turn N and the engine is started again, turn N is resolved in
\* full before the engine goes on to a later turn: once a later turn is the
\* current one, no START_COLONIZATION order of turn N is PLANNED, and every
\* province claimed in turn N has the country of an APPLIED claim of turn N
\* as its owner and, while the current turn has no claim on it, is not
\* contested.
C31_CrashRecovery ==
    \A t \in 1..Len(turns) :
        Behind(t)
        => /\ \A o \in ColonizationOrders(orders, t) : o.status # "PLANNED"
           /\ \A p \in Provinces :
                 ClaimsOn(orders, t, p) # {}
                 => /\ \E o \in ClaimsOn(orders, t, p) : Won(o)
                    /\ ClaimsOn(orders, currentTurnId, p) = {} => ~ provinces[p].contested


\* C32 -- Recovery of the deadline: when the engine starts and resumes a
\* persisted planning turn, planning ends at the deadline that turn's row
\* holds: a deadline still ahead stays the engine's and the row's deadline,
\* and with a deadline already in the past the scheduler is in resolve once
\* the start has acted, instead of in a planning phase with a new deadline.
C32_DeadlineRecovered ==
    [][\A t \in 1..Len(turns) :
          (BootDecides /\ OpenLatest(t))
          => /\ turns[t].phaseEndsAt = PendingDeadline
                => /\ phaseEndsAt' = PendingDeadline
                   /\ turns'[t].phaseEndsAt = PendingDeadline
             /\ turns[t].phaseEndsAt = ExpiredDeadline
                => /\ machineState' = "resolve"
                   /\ phaseEndsAt' # PlanningDeadline]_vars


\* C33 -- Seed immutability: a Turn row gets its seed when it is created, and
\* no step of the engine (a phase entry, submitOrder, markReady, start-up)
\* removes a Turn row or changes the seed of an existing one.
C33_SeedImmutable ==
    [][/\ Len(turns') >= Len(turns)
       /\ \A t \in 1..Len(turns) : turns'[t].seed = turns[t].seed]_vars

\* Turn 1 has been through its planning, resolve and commit updates and turn
\* 2 has been created.
C33_Witness ==
    /\ Len(turns) = 2
    /\ turns[1].committed
    /\ battles # {}
    /\ currentTurnId = 2


\* The owner of province p changes in the step.
OwnerChanged(p) == provinces'[p].ownerCountryId # provinces[p].ownerCountryId

\* The step is the resolve handler's province.update that names the owner.
ResolverOwns == hr.pc \in {"loop", "owner"} /\ hr'.pc = "applied"

\* C34 -- Ownership frame: a province's owner changes only in the resolve
\* handler's owner update, and only to a country that has a
\* START_COLONIZATION order on that province in the turn being resolved;
\* every other step (submitOrder with its lazy creation of a province,
\* markReady, the planning and commit entries, start-up) leaves every
\* province's owner as it was.
C34_OwnershipFrame ==
    [][\A p \in Provinces :
          OwnerChanged(p)
          => /\ ResolverOwns
             /\ \E o \in ClaimsOn(orders, currentTurnId, p) :
                   o.countryId = provinces'[p].ownerCountryId]_vars


\* The ids of the Order rows of turn tid.
OrderIds(table, tid) == {o.id : o \in {r \in table : r.turnId = tid}}

\* The resolve phase of the current turn has begun.
ResolveBegun == currentPhase \in {"resolve", "commit"}

\* C35 -- Ledger frozen at resolve: once the resolve phase of a turn has
\* begun no step creates or deletes an Order row of that turn, also not a
\* step of a submitOrder call that passed its phase check during planning;
\* and in the commit phase no order of the turn is PLANNED.
C35_LedgerFrozen ==
    [][/\ ResolveBegun
          => OrderIds(orders', currentTurnId) = OrderIds(orders, currentTurnId)
       /\ currentPhase' = "commit"
          => \A o \in orders' : o.turnId = currentTurnId' => o.status # "PLANNED"]_vars


\* The Order rows that the step creates.
CreatedRows == {o \in orders' : \A r \in orders : r.id # o.id}

\* C36 -- Orders land in the open turn: an Order row that a submitOrder call
\* creates is never stored under the id of a turn that is already committed,
\* also when the call is made after the phase has changed from commit to
\* planning and before the new Turn row exists.
C36_OpenTurn ==
    [][\A o \in CreatedRows : ~ turns[o.turnId].committed]_vars


\* C37 -- ReadySet belongs to the current planning phase: while the phase is
\* planning the ReadySet holds only countries that called markReady during
\* this planning phase; the auto-ready stamp of a resolve handler that is
\* still in flight adds no country to the ReadySet of a later planning phase.
C37_ReadyOfThisPhase ==
    currentPhase = "planning" => readyCountries \subseteq calledReady


\* C38 -- No contest survives resolve: from the end of a turn's resolve
\* handler until the next turn opens no province is flagged contested, also
\* when a submitOrder call that began during planning runs its
\* refreshContestedFlags after the handler has cleared the flags.
C38_NoContestAfterResolve ==
    Resolved => \A p \in Provinces : ~ provinces[p].contested


\* The step stores orders for session s or sets the session's hasSubmitted.
IntakeFor(s) ==
    \/ currentOrders'[s].present /\ currentOrders'[s] # currentOrders[s]
    \/ roomPlayers'[s].hasSubmitted /\ ~ roomPlayers[s].hasSubmitted

\* The actor enters planning and stays there.
RoomPlanningEntered == phaseActor' = "planning" /\ phaseActor # "planning"

\* C39 -- WegoRoom order intake: orders are stored and hasSubmitted is set
\* only while the room is in planning and for a connected player; a
\* commit_orders message that a connected player sends in planning stores
\* that message's orders for the session, in place of what was stored for it
\* before, and sets the player's hasSubmitted; and at every planning entry
\* no orders are stored and no connected player has hasSubmitted.
C39_OrderIntake ==
    [][/\ \A s \in Sessions :
             IntakeFor(s) => phaseActor = "planning" /\ roomPlayers[s].connected
       /\ \A s \in Sessions, payload \in Messages :
             (phaseActor = "planning" /\ CommitOrders(s, payload))
             => /\ currentOrders'[s] = [present |-> TRUE, orders |-> normalizeOrders(payload)]
                /\ roomPlayers'[s].hasSubmitted
       /\ RoomPlanningEntered
             => /\ currentOrders' = EmptyOrders
                /\ \A s \in Sessions :
                      roomPlayers'[s].connected => ~ roomPlayers'[s].hasSubmitted]_vars


\* The connected players of the room.
ConnectedPlayers == {s \in Sessions : roomPlayers[s].joined /\ roomPlayers[s].connected}

\* There are enough connected players, and each of them has sent its orders
\* in the open planning phase.
EverybodySubmitted ==
    /\ Cardinality(ConnectedPlayers) >= MinPlayersToAutoLock
    /\ ConnectedPlayers \subseteq sentOrders

\* C40 -- WegoRoom auto-lock: the room does not stay in planning once the
\* connected players are at least minPlayersToAutoLock and every one of them
\* has submitted, whether the last of them submitted or a player who had not
\* submitted left; and the room goes from planning to lock while some
\* connected player has not submitted only by the planning timeout.
C40_AutoLock ==
    [][/\ roomPhase' = "planning" => ~ EverybodySubmitted'
       /\ (roomPhase = "planning" /\ roomPhase' = "lock" /\ ~ EverybodySubmitted')
             => RoomTimeout]_vars

=============================================================================
